---------------------------- MODULE Spec2Model ----------------------------
(***************************************************************************)
(* imap-cleaning-tool (src/imap-cleaning-tool.go, second program of the    *)
(* file, lines 274-740): connect, folder discovery, scan/classify,         *)
(* match-mode delete, statistics pager, wipe, backup and restore.          *)
(*                                                                         *)
(* Go strings are sequences of one-character strings, so that ToLower,     *)
(* Contains, Atoi and the classification key are computed, not assumed.    *)
(* A folder name is the sequence of its "/"-separated segments.            *)
(***************************************************************************)
EXTENDS Integers, Sequences, FiniteSets, TLC

VARIABLES
    \* --- the run's inputs and environment
    cfg,        \* the flags (emailF, passF, imapF, fieldF, matchF, sizeF, backupF, restoreF, allowPlnF)
    reach,      \* the probe prefixes whose host answers a TLS dial on :993
    listing,    \* what the server's LIST returns: sequence of [Name, NoSelect]
    \* --- main()
    pc,         \* position of main()
    addr,       \* host: <<hostname, port>> handed to dialSmart
    attempts,   \* log of the connection attempts dialSmart made, in order
    advisory,   \* the advisory lines dialSmart printed, in order
    cli,        \* the session dialSmart returned: "nil" or the tier that produced it
    \* --- the mailbox service behind the session
    mailbox,    \* folder name -> sequence of messages [uid, tpl, del]; position = sequence number,
                \* uid = the sequence number the message had when the run began
    selected,   \* the folder the session has selected, or NoFolder
    calls,      \* log of the service calls issued: [op, folder, ids]
    removed,    \* the messages expunged so far: set of <<folder, uid>>
    faults,     \* number of service calls that failed so far
    errs,       \* the service calls that returned an error: set of <<op, folder>>
    \* --- scan
    folders,    \* the discovered folder list
    fi,         \* index into folders of the next folder to scan
    buckets,    \* key -> bucket
    target,     \* the match-mode bucket
    totMsgs,
    matchMsgs,
    fetched,    \* log of the messages the fetches delivered: [folder, tpl]
    listed,     \* the mailboxes the List call of the discovery delivered
    \* --- statistics pager and delete
    list,
    page,
    start,
    end,
    in,         \* the line read at the command prompt
    idx,
    confirm,    \* the line read at the "Delete ALL" prompt
    ans,        \* the line read at the match-mode "Delete?" prompt
    notice,     \* the notice the last step printed, "" when none
    shown,      \* the rows of the page displayed last
    wleft,      \* wipe: the folders of the map not yet iterated
    ndel,       \* number of affirmative confirmations so far
    eof,        \* standard input is exhausted: every further Scanln reads nothing
    lrest,      \* backup: the mailboxes cli.List has not delivered yet
    lopen,      \* backup: the channel mbc is still open
    mbc,        \* backup: the mailboxes delivered and not yet received
    archive,    \* the entries of the tar archive, in stored order
    rest,       \* restore: the entries not read yet
    tbox,       \* restore: the target mailbox, folder name -> raw messages
    progress    \* the counters folders, msgs and restored

envV   == <<cfg, reach, listing>>
connV  == <<addr, attempts, advisory, cli>>
svcV   == <<mailbox, selected, calls, removed, faults, errs>>
scanV  == <<folders, fi, buckets, target, totMsgs, matchMsgs, fetched, listed>>
pagerV == <<list, page, start, end, in, idx, confirm, ans, notice, shown, wleft, ndel, eof>>

archV  == <<lrest, lopen, mbc, archive, rest, tbox, progress>>

vars == <<envV, pc, connV, svcV, scanV, pagerV, archV>>

-----------------------------------------------------------------------------
(* Strings *)

NoStr == <<>>

\* strings.ToLower on the letters the model uses
LowerChar(c) ==
    CASE c = "S" -> "s" [] c = "P" -> "p" [] c = "Y" -> "y" [] c = "N" -> "n"
      [] c = "Q" -> "q" [] c = "A" -> "a" [] c = "X" -> "x"
      [] OTHER -> c

ToLower(s) == [i \in 1..Len(s) |-> LowerChar(s[i])]

\* strings.Contains(s, sub)
Contains(s, sub) ==
    \E i \in 0..(Len(s) - Len(sub)) :
        \A j \in 1..Len(sub) : s[i + j] = sub[j]


-----------------------------------------------------------------------------
(* Connect phase: main() lines 532-574, guessServer, dialSmart *)

Prefixes == << <<"i","m","a","p",".">>, <<"m","a","i","l",".">>, <<>> >>

\* strings.Split(email, "@"): the pieces between the "@" characters
AtPositions(s) == {i \in 1..Len(s) : s[i] = "@"}

SplitCount(s) == Cardinality(AtPositions(s)) + 1

\* strings.Split(email, "@")[1]; the caller indexes it only when SplitCount > 1
SplitSecond(s) ==
    LET first == CHOOSE i \in AtPositions(s) : \A j \in AtPositions(s) : i <= j
        later == {j \in AtPositions(s) : j > first}
        stop  == IF later = {} THEN Len(s) + 1
                 ELSE CHOOSE j \in later : \A k \in later : j <= k
    IN  SubSeq(s, first + 1, stop - 1)

\* guessServer: the first prefix whose host answers on :993, else d:143
guessServer(email, reachable) ==
    LET d    == SplitSecond(email)
        hits == {i \in 1..Len(Prefixes) : i \in reachable}
    IN  IF hits # {}
        THEN << Prefixes[CHOOSE i \in hits : \A j \in hits : i <= j] \o d, "993" >>
        ELSE << d, "143" >>

\* the ports the connect closure of dialSmart supports
Supported(port) == port \in {"993", "143"}

\* a plaintext guard that forgets the port
PlainAllowed_mut(port, allowPln) == allowPln

\* the guard of the plaintext tier
PlainAllowed(port, allowPln) == port = "143" /\ allowPln

NoAddr == <<NoStr, "">>

\* main(): flag.Parse and the two flag checks
Start ==
    /\ pc = "start"
    /\ \/ /\ (cfg.email = NoStr \/ ~cfg.password)
          /\ pc' = "exit"
       \/ /\ ~(cfg.email = NoStr \/ ~cfg.password)
          /\ (cfg.backup \/ cfg.restore) /\ cfg.match # NoStr
          /\ pc' = "fatal"
       \/ /\ ~(cfg.email = NoStr \/ ~cfg.password)
          /\ ~((cfg.backup \/ cfg.restore) /\ cfg.match # NoStr)
          /\ pc' = "resolve"
    /\ UNCHANGED <<archV, envV, connV, svcV, scanV, pagerV>>

\* main(): host := *imapF; if host == "" { host = guessServer(*emailF) }
Resolve ==
    /\ pc = "resolve"
    /\ \/ /\ cfg.imap # NoAddr
          /\ addr' = cfg.imap
          /\ pc' = "dial_modern"
       \/ /\ cfg.imap = NoAddr
          /\ SplitCount(cfg.email) > 1
          /\ addr' = guessServer(cfg.email, reach)
          /\ pc' = "dial_modern"
       \/ /\ cfg.imap = NoAddr
          /\ SplitCount(cfg.email) <= 1      \* index out of range
          /\ addr' = addr
          /\ pc' = "panic"
    /\ UNCHANGED <<archV, envV, attempts, advisory, cli, svcV, scanV, pagerV>>

\* dialSmart: connect(mod)
DialModern ==
    /\ pc = "dial_modern"
    /\ \/ /\ Supported(addr[2])
          /\ \E ok \in BOOLEAN :
                /\ attempts' = Append(attempts, [tier |-> "modern", ok |-> ok])
                /\ IF ok
                   THEN /\ advisory' = Append(advisory, "Modern TLS")
                        /\ cli' = "modern"
                        /\ pc' = "login"
                   ELSE /\ pc' = "dial_legacy"
                        /\ UNCHANGED <<advisory, cli>>
       \/ /\ ~Supported(addr[2])
          /\ pc' = "dial_legacy"
          /\ UNCHANGED <<attempts, advisory, cli>>
    /\ UNCHANGED <<archV, envV, addr, svcV, scanV, pagerV>>

\* dialSmart: connect(leg)
DialLegacy ==
    /\ pc = "dial_legacy"
    /\ \/ /\ Supported(addr[2])
          /\ \E ok \in BOOLEAN :
                /\ attempts' = Append(attempts, [tier |-> "legacy", ok |-> ok])
                /\ IF ok
                   THEN /\ advisory' = Append(advisory, "Legacy TLS")
                        /\ cli' = "legacy"
                        /\ pc' = "login"
                   ELSE /\ pc' = "dial_plain"
                        /\ UNCHANGED <<advisory, cli>>
       \/ /\ ~Supported(addr[2])
          /\ pc' = "dial_plain"
          /\ UNCHANGED <<attempts, advisory, cli>>
    /\ UNCHANGED <<archV, envV, addr, svcV, scanV, pagerV>>

\* dialSmart: the plaintext tier, or the "TLS failed" error
DialPlain ==
    /\ pc = "dial_plain"
    /\ \/ /\ PlainAllowed(addr[2], cfg.allowPln)
          /\ advisory' = Append(advisory, "Plain IMAP")
          /\ \E ok \in BOOLEAN :
                /\ attempts' = Append(attempts, [tier |-> "plain", ok |-> ok])
                /\ cli' = IF ok THEN "plain" ELSE "nil"
                /\ pc' = IF ok THEN "login" ELSE "fatal"
       \/ /\ ~PlainAllowed(addr[2], cfg.allowPln)
          /\ pc' = "fatal"
          /\ UNCHANGED <<attempts, advisory, cli>>
    /\ UNCHANGED <<archV, envV, addr, svcV, scanV, pagerV>>

\* main(): cli.Login
Login ==
    /\ pc = "login"
    /\ \E ok \in BOOLEAN : pc' = IF ok THEN "dispatch" ELSE "fatal"
    /\ UNCHANGED <<archV, envV, connV, svcV, scanV, pagerV>>

\* shortcuts that look at -restore first
Shortcut_mut(c) ==
    IF c.restore THEN "restore" ELSE IF c.backup THEN "backup" ELSE "discover"

\* if *backupF != "" { ... return }; if *restoreF != "" { ... return }; else the scan
Shortcut(c) ==
    IF c.backup THEN "backup" ELSE IF c.restore THEN "restore" ELSE "discover"

\* main(): the backup / restore shortcuts, else the scan
Dispatch ==
    /\ pc = "dispatch"
    /\ pc' = Shortcut(cfg)
    /\ UNCHANGED <<archV, envV, connV, svcV, scanV, pagerV>>

-----------------------------------------------------------------------------
(* Messages and the mailbox service (external collaborator) *)

INBOX == <<"INBOX">>

NoFolder == <<>>

Address(m, h) == [MailboxName |-> m, HostName |-> h]

\* a subject longer than classify's 60-character budget, with "sp" past the cut
LongSubject == [i \in 1..61 |-> IF i = 59 THEN "s" ELSE IF i = 60 THEN "p" ELSE "x"]

\* senders of the pager mailbox: u<tens><units>@h
Digit(n) == <<"0","1","2","3","4","5","6","7","8","9">>[n + 1]

PagerTpl(k) == 100 + k

\* the messages the model's mailboxes are made of: envelope, RFC822 size, raw content
Pool ==
    << [From    |-> << Address(<<"S","p">>, <<"h">>) >>,
        To      |-> << >>,
        Subject |-> <<"h","i">>,
        Size    |-> 3, Raw |-> "raw1"],
       [From    |-> << Address(<<"a">>, <<"h">>), Address(<<"s","p">>, <<"h">>) >>,
        To      |-> << Address(<<"S","p">>, <<"h">>) >>,
        Subject |-> LongSubject,
        Size    |-> 5, Raw |-> "raw2"],
       [From    |-> << >>,
        To      |-> << Address(<<"a">>, <<"h">>) >>,
        Subject |-> <<"S","P">>,
        Size    |-> 2, Raw |-> "raw3"] >>

Tpl(t) ==
    IF t <= Len(Pool) THEN Pool[t]
    ELSE [From    |-> << Address(<<"u", Digit((t - 100) \div 10), Digit((t - 100) % 10)>>, <<"h">>) >>,
          To      |-> << >>,
          Subject |-> <<"h","i">>,
          Size    |-> 1, Raw |-> "raw"]

\* the raw header the server searches: every address of the field, or the whole subject
RECURSIVE JoinAddrs(_)
JoinAddrs(a) ==
    IF Len(a) = 0 THEN <<>>
    ELSE a[1].MailboxName \o <<"@">> \o a[1].HostName
         \o (IF Len(a) > 1 THEN <<",">> \o JoinAddrs(Tail(a)) ELSE <<>>)

Header(t, fld) ==
    CASE fld = "to"      -> JoinAddrs(Tpl(t).To)
      [] fld = "subject" -> Tpl(t).Subject
      [] OTHER           -> JoinAddrs(Tpl(t).From)

\* SEARCH ALL: every sequence number of the selected folder
SearchAll(box) == [i \in 1..Len(box) |-> i]

RECURSIVE Filter(_, _, _, _)
Filter(box, fld, text, i) ==
    IF i > Len(box) THEN <<>>
    ELSE (IF Contains(ToLower(Header(box[i].tpl, fld)), ToLower(text)) THEN <<i>> ELSE <<>>)
         \o Filter(box, fld, text, i + 1)

\* SEARCH HEADER <field> <text>: case-insensitive substring of the raw header
SearchHeader(box, fld, text) == Filter(box, fld, text, 1)

\* FETCH: one message per sequence number, in the order asked
Fetch(box, ids, sizeOn) ==
    [i \in 1..Len(ids) |->
        [SeqNum   |-> ids[i],
         Envelope |-> Tpl(box[ids[i]].tpl),
         Size     |-> IF sizeOn THEN Tpl(box[ids[i]].tpl).Size ELSE 0,
         tpl      |-> box[ids[i]].tpl]]

Range(s) == {s[i] : i \in 1..Len(s)}

\* STORE +FLAGS \Deleted on the sequence numbers ids
Flag(box, ids) ==
    [i \in 1..Len(box) |-> IF i \in Range(ids) THEN [box[i] EXCEPT !.del = TRUE] ELSE box[i]]

\* EXPUNGE: every message carrying \Deleted goes, the rest are renumbered
NotDeleted(m) == ~m.del

Kept(box) == SelectSeq(box, NotDeleted)

Gone(f, box) == {<<f, box[i].uid>> : i \in {j \in 1..Len(box) : box[j].del}}

Call(op, f, ids) == [op |-> op, folder |-> f, ids |-> ids]

-----------------------------------------------------------------------------
(* helper funcs and the stats bucket *)

\* classify: the key of message envelope e for field fld
classifyAddr(a) ==
    IF Len(a) = 0 THEN <<"(","n","o","n","e",")">>
    ELSE a[1].MailboxName \o <<"@">> \o a[1].HostName

classify(e, fld) ==
    CASE fld = "to"      -> classifyAddr(e.To)
      [] fld = "subject" -> IF Len(e.Subject) > 60
                            THEN SubSeq(e.Subject, 1, 57) \o <<"...">>
                            ELSE e.Subject
      [] OTHER           -> classifyAddr(e.From)

\* trim: the key as the table shows it
trim(s) == IF Len(s) <= 40 THEN s ELSE SubSeq(s, 1, 37) \o <<"...">>

NewBucket(key) == [Key |-> key, Cnt |-> 0, Bytes |-> 0, ByFolder |-> <<>>]

\* an add that counts a message only when it opens a new folder entry
add_mut(b, folder, uid, sz) ==
    [b EXCEPT !.Cnt = IF folder \in DOMAIN b.ByFolder THEN @ ELSE @ + 1,
              !.Bytes = @ + sz,
              !.ByFolder = IF folder \in DOMAIN @
                           THEN [@ EXCEPT ![folder] = Append(@, uid)]
                           ELSE @ @@ (folder :> <<uid>>)]

\* bucket.add
add(b, folder, uid, sz) ==
    [b EXCEPT !.Cnt = @ + 1,
              !.Bytes = @ + sz,
              !.ByFolder = IF folder \in DOMAIN @
                           THEN [@ EXCEPT ![folder] = Append(@, uid)]
                           ELSE @ @@ (folder :> <<uid>>)]

statsMode == cfg.match = NoStr

sizeOn == ~statsMode \/ cfg.size

\* a local check that lower-cases the classification value only
Matches_mut(e, fld, text) == Contains(ToLower(classify(e, fld)), text)

\* the match-mode test of one fetched message
Matches(e, fld, text) == Contains(ToLower(classify(e, fld)), ToLower(text))

\* the body of "for m := range mc" in statistics mode, over the delivered messages
RECURSIVE ConsumeStats(_, _, _, _)
ConsumeStats(msgs, folder, fld, bs) ==
    IF Len(msgs) = 0 THEN bs
    ELSE LET m   == Head(msgs)
             key == classify(m.Envelope, fld)
             b0  == IF key \in DOMAIN bs THEN bs[key] ELSE NewBucket(key)
             b1  == add(b0, folder, m.SeqNum, m.Size)
             bs1 == IF key \in DOMAIN bs THEN [bs EXCEPT ![key] = b1] ELSE bs @@ (key :> b1)
         IN  ConsumeStats(Tail(msgs), folder, fld, bs1)

\* the body of "for m := range mc" in match mode
RECURSIVE ConsumeMatch(_, _, _, _, _)
ConsumeMatch(msgs, folder, fld, text, t) ==
    IF Len(msgs) = 0 THEN t
    ELSE LET m == Head(msgs)
         IN  ConsumeMatch(Tail(msgs), folder, fld, text,
                          IF Matches(m.Envelope, fld, text)
                          THEN add(t, folder, m.SeqNum, m.Size) ELSE t)

-----------------------------------------------------------------------------
(* Bounds of the model *)

\* messages in the INBOX of the small mailboxes
MaxMsgs == 2

\* service calls that may fail in one run
MaxFaults == 1

\* affirmative confirmations the operator gives in one run
MaxDeletes == 2

-----------------------------------------------------------------------------
(* main(): folder discovery and the scan loop *)

\* a condition that forgets that INBOX is already in the list
Wanted_mut(mb) == ~mb.NoSelect

\* selectable && mb.Name != "INBOX"
Wanted(mb) == ~mb.NoSelect /\ mb.Name # INBOX

RECURSIVE Selectable(_)
Selectable(ls) ==
    IF Len(ls) = 0 THEN <<>>
    ELSE (IF Wanted(Head(ls)) THEN <<Head(ls).Name>> ELSE <<>>) \o Selectable(Tail(ls))

\* "discover selectable folders": INBOX first, then what the List producer delivered
Discover ==
    /\ pc = "discover"
    /\ \/ /\ listed' = listing
          /\ folders' = <<INBOX>> \o Selectable(listing)
          /\ faults' = faults
          /\ errs' = errs
       \/ /\ faults < MaxFaults          \* List ends in an error after n mailboxes
          /\ \E n \in 0..(Len(listing) - 1) :
                /\ listed' = SubSeq(listing, 1, n)
                /\ folders' = <<INBOX>> \o Selectable(SubSeq(listing, 1, n))
          /\ faults' = faults + 1
          /\ errs' = errs \cup {<<"list", NoFolder>>}
    /\ calls' = Append(calls, Call("list", NoFolder, <<>>))
    /\ fi' = 1
    /\ buckets' = <<>>
    /\ target' = [NewBucket(cfg.match) EXCEPT !.ByFolder = <<>>]
    /\ totMsgs' = 0
    /\ matchMsgs' = 0
    /\ pc' = "scan"
    /\ UNCHANGED <<archV, envV, connV, mailbox, selected, removed, fetched, pagerV>>

ScanFaults == {"select", "search", "research", "fetch"}

\* one iteration of "for i, folder := range folders"
ScanFolder ==
    /\ pc = "scan"
    /\ \E fs \in SUBSET ScanFaults, stay \in BOOLEAN :
        LET folder == folders[fi]
            selOk  == folder \in DOMAIN mailbox /\ "select" \notin fs
            sel1   == IF selOk THEN folder ELSE IF stay THEN selected ELSE NoFolder
            box    == IF sel1 = NoFolder THEN <<>> ELSE mailbox[sel1]
            res    == IF statsMode THEN SearchAll(box)
                      ELSE SearchHeader(box, cfg.field, cfg.match)
            u1     == IF "search" \in fs THEN <<>> ELSE res
            again  == Len(u1) = 0 /\ statsMode
            u2     == IF again THEN (IF "research" \in fs THEN <<>> ELSE SearchAll(box))
                      ELSE u1
        IN  /\ Cardinality(fs) <= MaxFaults - faults
            /\ (selOk => ~stay)
            /\ ("search" \in fs => sel1 # NoFolder)
            /\ ("research" \in fs => again /\ sel1 # NoFolder)
            /\ ("fetch" \in fs => Len(u2) > 0)
            /\ \E n \in (IF "fetch" \in fs THEN 0..(Len(u2) - 1) ELSE {Len(u2)}) :
                LET msgs == SubSeq(Fetch(box, u2, sizeOn), 1, n)
                IN  /\ IF statsMode
                       THEN /\ buckets' = ConsumeStats(msgs, folder, cfg.field, buckets)
                            /\ totMsgs' = totMsgs + Len(msgs)
                            /\ UNCHANGED <<target, matchMsgs>>
                       ELSE /\ target' = ConsumeMatch(msgs, folder, cfg.field, cfg.match, target)
                            /\ matchMsgs' = matchMsgs
                                  + ConsumeMatch(msgs, folder, cfg.field, cfg.match, target).Cnt
                                  - target.Cnt
                            /\ UNCHANGED <<buckets, totMsgs>>
                    /\ fetched' = fetched \o [i \in 1..Len(msgs) |->
                                                [folder |-> folder, src |-> sel1,
                                                 tpl |-> msgs[i].tpl]]
                    /\ calls' = calls
                          \o <<Call("select", folder, <<>>), Call("search", sel1, <<>>)>>
                          \o (IF again THEN <<Call("search", sel1, <<>>)>> ELSE <<>>)
                          \o (IF Len(u2) > 0 THEN <<Call("fetch", sel1, u2)>> ELSE <<>>)
            /\ selected' = sel1
            /\ faults' = faults + Cardinality(fs)
            /\ errs' = errs
                  \cup (IF selOk THEN {} ELSE {<<"select", folder>>})
                  \cup (IF "search" \in fs \/ sel1 = NoFolder
                        THEN {<<"search", folder>>} ELSE {})
                  \cup (IF again /\ ("research" \in fs \/ sel1 = NoFolder)
                        THEN {<<"search", folder>>} ELSE {})
                  \cup (IF "fetch" \in fs THEN {<<"fetch", folder>>} ELSE {})
    /\ fi' = fi + 1
    /\ pc' = IF fi = Len(folders) THEN "scanned" ELSE "scan"
    /\ UNCHANGED <<archV, envV, connV, mailbox, removed, folders, listed, pagerV>>

-----------------------------------------------------------------------------
(* operator input *)

DigitChars == {"0","1","2","3","4","5","6","7","8","9"}

DigitVal(c) == CHOOSE n \in 0..9 : Digit(n) = c

RECURSIVE Magnitude(_)
Magnitude(s) == IF Len(s) = 0 THEN 0 ELSE 10 * Magnitude(SubSeq(s, 1, Len(s) - 1)) + DigitVal(s[Len(s)])

\* strconv.Atoi: optional sign, then one or more decimal digits
Atoi(s) ==
    LET signed == Len(s) > 0 /\ s[1] \in {"+", "-"}
        body   == IF signed THEN Tail(s) ELSE s
        ok     == Len(body) > 0 /\ \A i \in 1..Len(body) : body[i] \in DigitChars
    IN  [err |-> ~ok,
         val |-> IF ~ok THEN 0 ELSE IF signed /\ s[1] = "-" THEN 0 - Magnitude(body) ELSE Magnitude(body)]

\* an answer check that deletes unless the answer is "n"
IsYes_mut(x) == ToLower(x) # <<"n">>

\* strings.ToLower(x) == "y"
IsYes(x) == ToLower(x) = <<"y">>

\* what fmt.Scanln may put into the string: one token, or nothing on an empty line or at
\* the end of the input; once the end is reached every further read finds it again
Tokens ==
    { NoStr, <<"n">>, <<"N">>, <<"p">>, <<"q">>, <<"x">>,
      <<"0">>, <<"1">>, <<"2">>, <<"2","0">>, <<"2","1">> }

Answers == { NoStr, <<"y">>, <<"Y">>, <<"n">> }

-----------------------------------------------------------------------------
(* safe delete *)

\* wipe: one iteration of "for f, ids := range sets" (map order: any folder not yet visited)
WipeFolder(sets) ==
    \E f \in wleft, fail \in BOOLEAN, stay \in BOOLEAN, lenient \in BOOLEAN :
        LET ids   == sets[f]
            selOk == f \in DOMAIN mailbox /\ ~fail
            sel1  == IF selOk THEN f ELSE IF stay THEN selected ELSE NoFolder
            box   == IF sel1 = NoFolder THEN <<>> ELSE mailbox[sel1]
            valid == \A i \in 1..Len(ids) : ids[i] <= Len(box)
            box1  == IF valid \/ lenient THEN Flag(box, ids) ELSE box
        IN  /\ (fail => faults < MaxFaults)
            /\ (selOk => ~stay)
            /\ (valid \/ sel1 = NoFolder => ~lenient)
            /\ selected' = sel1
            /\ faults' = IF fail THEN faults + 1 ELSE faults
            /\ errs' = errs
                  \cup (IF selOk THEN {} ELSE {<<"select", f>>})
                  \cup (IF valid \/ lenient THEN {} ELSE {<<"store", f>>})
                  \cup (IF sel1 = NoFolder THEN {<<"store", f>>, <<"expunge", f>>} ELSE {})
            /\ calls' = calls \o <<Call("select", f, <<>>), Call("store", sel1, ids),
                                   Call("expunge", sel1, <<>>)>>
            /\ IF sel1 = NoFolder
               THEN UNCHANGED <<mailbox, removed>>
               ELSE /\ mailbox' = [mailbox EXCEPT ![sel1] = Kept(box1)]
                    /\ removed' = removed \cup Gone(sel1, box1)
            /\ wleft' = wleft \ {f}

-----------------------------------------------------------------------------
(* main(): match mode output & delete *)

MatchSummary ==
    /\ pc = "scanned"
    /\ ~statsMode
    /\ \/ /\ target.Cnt = 0
          /\ notice' = "Nothing matches"
          /\ shown' = shown
          /\ pc' = "done"
       \/ /\ target.Cnt # 0
          /\ notice' = "Total"
          /\ shown' = [rows  |-> [f \in DOMAIN target.ByFolder |-> Len(target.ByFolder[f])],
                       total |-> target.Cnt]
          /\ pc' = "MatchPrompt"
    /\ UNCHANGED <<archV, envV, connV, svcV, scanV, list, page, start, end, in, idx, confirm, ans,
                   wleft, ndel, eof>>

MatchAnswer ==
    /\ pc = "MatchPrompt"
    /\ \E t \in Answers :
        /\ eof' \in (IF eof THEN {TRUE} ELSE BOOLEAN)
        /\ eof' => t = NoStr
        /\ ans' = t
        /\ IF IsYes(t)
           THEN /\ wleft' = DOMAIN target.ByFolder
                /\ ndel' = ndel + 1
                /\ pc' = "MatchWipe"
           ELSE /\ pc' = "done"
                /\ UNCHANGED <<wleft, ndel>>
    /\ UNCHANGED <<archV, envV, connV, svcV, scanV, list, page, start, end, in, idx, confirm,
                   notice, shown>>

MatchWipe ==
    /\ pc = "MatchWipe"
    /\ \/ /\ wleft # {}
          /\ WipeFolder(target.ByFolder)
          /\ UNCHANGED <<pc, notice>>
       \/ /\ wleft = {}
          /\ notice' = "deleted"
          /\ pc' = "done"
          /\ UNCHANGED <<svcV, wleft>>
    /\ UNCHANGED <<archV, envV, connV, scanV, list, page, start, end, in, idx, confirm, ans,
                   shown, ndel, eof>>

-----------------------------------------------------------------------------
(* main(): stats mode table and the paging loop *)

pageSz == 20

MaxCnt(S) == CHOOSE c \in {b.Cnt : b \in S} : \A b \in S : b.Cnt <= c

\* sort.Slice by Cnt descending over the map's values: the map is iterated in any
\* order and the sort is not stable, so equal counts may come out in any order
RECURSIVE SortedLists(_)
SortedLists(S) ==
    IF S = {} THEN { <<>> }
    ELSE UNION { { <<b>> \o r : r \in SortedLists(S \ {b}) } :
                 b \in {x \in S : x.Cnt = MaxCnt(S)} }

BuildList ==
    /\ pc = "scanned"
    /\ statsMode
    /\ \/ /\ DOMAIN buckets = {}
          /\ notice' = "Mailbox empty"
          /\ pc' = "done"
          /\ UNCHANGED <<list, page>>
       \/ /\ DOMAIN buckets # {}
          /\ list' \in SortedLists({buckets[k] : k \in DOMAIN buckets})
          /\ page' = 0
          /\ notice' = ""
          /\ pc' = "Listing"
    /\ UNCHANGED <<archV, envV, connV, svcV, scanV, start, end, in, idx, confirm, ans, shown,
                   wleft, ndel, eof>>

Min(a, b) == IF a < b THEN a ELSE b

\* the rows of the table for list[start+1 .. end]
Rows(l, s, e) ==
    [i \in 1..(e - s) |->
        [n |-> i, key |-> trim(l[s + i].Key), msgs |-> l[s + i].Cnt,
         bytes |-> IF sizeOn THEN l[s + i].Bytes ELSE 0]]

\* an End check that is off by one
AtEnd_mut(s, l) == s > Len(l)

\* the End check at the top of the loop
AtEnd(s, l) == s >= Len(l)

\* top of the loop: End and return, or print the page and the prompt; in, idx and
\* confirm are declared anew in every iteration that gets past the End check
Listing ==
    /\ pc = "Listing"
    /\ start' = page * pageSz
    /\ \/ /\ AtEnd(page * pageSz, list)
          /\ notice' = "End"
          /\ end' = (page + 1) * pageSz
          /\ pc' = "done"
          /\ UNCHANGED <<shown, in, idx, confirm>>
       \/ /\ ~AtEnd(page * pageSz, list)
          /\ end' = Min((page + 1) * pageSz, Len(list))
          /\ shown' = Rows(list, page * pageSz, Min((page + 1) * pageSz, Len(list)))
          /\ notice' = ""
          /\ in' = NoStr
          /\ idx' = 0
          /\ confirm' = NoStr
          /\ pc' = "AwaitingCommand"
    /\ UNCHANGED <<archV, envV, connV, svcV, scanV, list, page, ans, wleft, ndel, eof>>

\* case "n"
NextPage(p) == p + 1

\* a previous-page step without the guard
PrevPage_mut(p) == p - 1

\* case "p"
PrevPage(p) == IF p > 0 THEN p - 1 ELSE p

\* an index check against the page size instead of the rows shown
BadIndex_mut(a, s, e) == a.err \/ a.val < 1 \/ a.val > pageSz

\* the index check of the default case
BadIndex(a, s, e) == a.err \/ a.val < 1 \/ a.val > e - s

\* fmt.Scanln(&in) and the switch
Command ==
    /\ pc = "AwaitingCommand"
    /\ \E t \in Tokens :
        /\ eof' \in (IF eof THEN {TRUE} ELSE BOOLEAN)
        /\ eof' => t = NoStr
        /\ in' = t
        /\ CASE ToLower(t) = <<"n">> ->
                  /\ page' = NextPage(page)
                  /\ notice' = ""
                  /\ pc' = "Listing"
                  /\ UNCHANGED idx
             [] ToLower(t) = <<"p">> ->
                  /\ page' = PrevPage(page)
                  /\ notice' = ""
                  /\ pc' = "Listing"
                  /\ UNCHANGED idx
             [] ToLower(t) = <<"q">> ->
                  /\ notice' = ""
                  /\ pc' = "done"
                  /\ UNCHANGED <<page, idx>>
             [] OTHER ->
                  IF BadIndex(Atoi(t), start, end)
                  THEN /\ notice' = "bad input"
                       /\ pc' = "Listing"
                       /\ UNCHANGED <<page, idx>>
                  ELSE /\ idx' = Atoi(t).val
                       /\ notice' = "Delete ALL"
                       /\ pc' = "AwaitingConfirmation"
                       /\ UNCHANGED page
    /\ UNCHANGED <<archV, envV, connV, svcV, scanV, list, start, end, confirm, ans, shown, wleft, ndel>>

\* fmt.Scanln(&confirm)
Confirm ==
    /\ pc = "AwaitingConfirmation"
    /\ \E t \in Answers :
        /\ eof' \in (IF eof THEN {TRUE} ELSE BOOLEAN)
        /\ eof' => t = NoStr
        /\ confirm' = t
        /\ IF IsYes(t)
           THEN /\ ndel < MaxDeletes
                /\ ndel' = ndel + 1
                /\ wleft' = DOMAIN list[start + idx].ByFolder
                /\ pc' = "Deleting"
           ELSE /\ pc' = "Listing"
                /\ UNCHANGED <<wleft, ndel>>
    /\ notice' = ""
    /\ UNCHANGED <<archV, envV, connV, svcV, scanV, list, page, start, end, in, idx, ans, shown>>

\* a removal that is off by one
RemoveAt_mut(l, k) == SubSeq(l, 1, k) \o SubSeq(l, k + 2, Len(l))

\* list = append(list[:start+idx-1], list[start+idx:]...)
RemoveAt(l, k) == SubSeq(l, 1, k - 1) \o SubSeq(l, k + 1, Len(l))

\* a page adjustment that is late by one group
PageAfter_mut(s, l, p) == IF s > Len(l) /\ p > 0 THEN p - 1 ELSE p

\* the page index after the removal
PageAfter(s, l, p) == IF s >= Len(l) /\ p > 0 THEN p - 1 ELSE p

\* wipe(cli, b.ByFolder), then the removal from the list and the page adjustment
Deleting ==
    /\ pc = "Deleting"
    /\ \/ /\ wleft # {}
          /\ WipeFolder(list[start + idx].ByFolder)
          /\ UNCHANGED <<pc, notice, list, page>>
       \/ /\ wleft = {}
          /\ notice' = "deleted"
          /\ list' = RemoveAt(list, start + idx)
          /\ page' = PageAfter(start, RemoveAt(list, start + idx), page)
          /\ pc' = "Listing"
          /\ UNCHANGED <<svcV, wleft>>
    /\ UNCHANGED <<archV, envV, connV, scanV, start, end, in, idx, confirm, ans, shown, ndel, eof>>

-----------------------------------------------------------------------------
(* backup & restore *)

\* the name "%d.eml" of the message with the given uid
FileNames == <<"1.eml", "2.eml", "3.eml", "4.eml", "5.eml", "6.eml">>

\* fmt.Sprintf("%s/%d.eml", mb.Name, m.Uid), as path elements
EntryName(folder, uid) == Append(folder, FileNames[uid])

KeepElement(x) == x # "" /\ x # "."

\* filepath.Dir: the path without its last element, cleaned; "." when nothing is left
Dir(name) ==
    LET d == SelectSeq(SubSeq(name, 1, Len(name) - 1), KeepElement)
    IN  IF d = <<>> THEN <<".">> ELSE d

\* a destination without the INBOX default
RestoreFolder_mut(name) == Dir(name)

\* the destination folder of an entry
RestoreFolder(name) == IF Dir(name) = <<".">> THEN INBOX ELSE Dir(name)

\* the capacity of the channel mbc
MbcCap == 64

\* the goroutine "go func() { _ = cli.List("", "*", mbc) }()": delivers the next
\* mailbox, or ends (with or without an error) and closes the channel
BackupList ==
    /\ pc = "backup"
    /\ lopen
    /\ \/ /\ lrest # <<>>
          /\ Len(mbc) < MbcCap
          /\ mbc' = Append(mbc, Head(lrest))
          /\ lrest' = Tail(lrest)
          /\ UNCHANGED <<lopen, faults, errs, calls>>
       \/ /\ lrest = <<>>
          /\ lopen' = FALSE
          /\ calls' = Append(calls, Call("list", NoFolder, <<>>))
          /\ UNCHANGED <<lrest, mbc, faults, errs>>
       \/ /\ lrest # <<>>
          /\ faults < MaxFaults
          /\ faults' = faults + 1
          /\ errs' = errs \cup {<<"list", NoFolder>>}
          /\ lopen' = FALSE
          /\ lrest' = <<>>
          /\ calls' = Append(calls, Call("list", NoFolder, <<>>))
          /\ UNCHANGED mbc
    /\ UNCHANGED <<envV, pc, connV, mailbox, selected, removed, scanV, pagerV,
                   archive, rest, tbox, progress>>

BackupFaults == {"select", "search", "fetch"}

\* one iteration of "for mb := range mbc"
BackupFolder ==
    /\ pc = "backup"
    /\ mbc # <<>>
    /\ mbc' = Tail(mbc)
    /\ LET mb == Head(mbc)
       IN  IF mb.NoSelect
           THEN UNCHANGED <<svcV, archive, progress>>
           ELSE \E fs \in SUBSET BackupFaults, stay \in BOOLEAN :
               LET selOk == mb.Name \in DOMAIN mailbox /\ "select" \notin fs
                   sel1  == IF selOk THEN mb.Name ELSE IF stay THEN selected ELSE NoFolder
                   uids  == IF selOk /\ "search" \notin fs
                            THEN SearchAll(mailbox[mb.Name]) ELSE <<>>
               IN  /\ Cardinality(fs) <= MaxFaults - faults
                   /\ (selOk => ~stay)
                   /\ ("search" \in fs => selOk)
                   /\ ("fetch" \in fs => Len(uids) > 0)
                   /\ faults' = faults + Cardinality(fs)
                   /\ errs' = errs
                         \cup (IF selOk THEN {} ELSE {<<"select", mb.Name>>})
                         \cup (IF "search" \in fs THEN {<<"search", mb.Name>>} ELSE {})
                         \cup (IF "fetch" \in fs THEN {<<"fetch", mb.Name>>} ELSE {})
                   /\ selected' = sel1
                   /\ \E n \in (IF "fetch" \in fs THEN 0..(Len(uids) - 1) ELSE {Len(uids)}) :
                       LET got == [i \in 1..n |-> mailbox[mb.Name][uids[i]]]
                       IN  /\ archive' = archive \o
                                 [i \in 1..n |-> [Name  |-> EntryName(mb.Name, got[i].uid),
                                                  IsDir |-> FALSE,
                                                  Data  |-> Tpl(got[i].tpl).Raw]]
                           /\ progress' = [progress EXCEPT
                                 !.folders = IF Len(uids) > 0 THEN @ + 1 ELSE @,
                                 !.msgs = @ + n]
                   /\ calls' = calls \o <<Call("select", mb.Name, <<>>)>>
                         \o (IF selOk THEN <<Call("search", sel1, <<>>)>> ELSE <<>>)
                         \o (IF Len(uids) > 0 THEN <<Call("fetch", sel1, uids)>> ELSE <<>>)
                   /\ UNCHANGED <<mailbox, removed>>
    /\ UNCHANGED <<envV, pc, connV, scanV, pagerV, lrest, lopen, rest, tbox>>

\* the channel is closed and drained: backupAll returns nil, main prints "backup done"
BackupDone ==
    /\ pc = "backup"
    /\ ~lopen
    /\ mbc = <<>>
    /\ notice' = "backup done"
    /\ pc' = "backup_done"
    /\ UNCHANGED <<envV, connV, svcV, scanV, list, page, start, end, in, idx, confirm, ans,
                   shown, wleft, ndel, eof, archV>>

\* a second run of the program, with -restore on the archive, logged in to a mailbox
\* that holds nothing but an empty INBOX
RestoreStart ==
    /\ pc = "backup_done"
    /\ cfg' = [cfg EXCEPT !.backup = FALSE, !.restore = TRUE]
    /\ rest' = archive
    /\ tbox' = (INBOX :> <<>>)
    /\ pc' = "restore"
    /\ UNCHANGED <<reach, listing, connV, svcV, scanV, pagerV, lrest, lopen, mbc, archive,
                   progress>>

\* one iteration of the loop over tr.Next()
RestoreEntry ==
    /\ pc = "restore"
    /\ rest # <<>>
    /\ rest' = Tail(rest)
    /\ LET h == Head(rest)
           fold == RestoreFolder(h.Name)
       IN  IF h.IsDir
           THEN UNCHANGED <<tbox, progress, faults, errs, calls>>
           ELSE \E cfail \in BOOLEAN, afail \in BOOLEAN :
               LET made == IF cfail \/ fold \in DOMAIN tbox THEN tbox
                           ELSE tbox @@ (fold :> <<>>)
               IN  /\ (IF cfail THEN 1 ELSE 0) + (IF afail THEN 1 ELSE 0) <= MaxFaults - faults
                   /\ (cfail => fold \notin DOMAIN tbox)
                   /\ (afail => fold \in DOMAIN made)
                   /\ faults' = faults + (IF cfail THEN 1 ELSE 0) + (IF afail THEN 1 ELSE 0)
                   /\ errs' = errs
                         \cup (IF cfail THEN {<<"create", fold>>} ELSE {})
                         \cup (IF fold \in DOMAIN made /\ ~afail THEN {}
                               ELSE {<<"append", fold>>})
                   /\ tbox' = IF fold \in DOMAIN made /\ ~afail
                              THEN [made EXCEPT ![fold] = Append(@, h.Data)]
                              ELSE made
                   /\ progress' = [progress EXCEPT !.restored = @ + 1]
                   /\ calls' = calls \o <<Call("create", fold, <<>>), Call("append", fold, <<>>)>>
    /\ UNCHANGED <<envV, pc, connV, mailbox, selected, removed, scanV, pagerV, lrest, lopen,
                   mbc, archive>>

\* io.EOF: restoreAll returns nil, main prints "restore done"
RestoreDone ==
    /\ pc = "restore"
    /\ rest = <<>>
    /\ notice' = "restore done"
    /\ pc' = "restore_done"
    /\ UNCHANGED <<envV, connV, svcV, scanV, list, page, start, end, in, idx, confirm, ans,
                   shown, wleft, ndel, eof, archV>>

-----------------------------------------------------------------------------
(* Initial states and specifications *)

Addrs == { <<<<"h">>, "993">>, <<<<"h">>, "143">>, <<<<"h">>, "25">> }

Emails == { NoStr, <<"b","@","d">>, <<"b">> }

MatchTexts == { <<"s","P">>, <<"n","o","n","e">> }

Fields == {"from", "to", "subject"}

SENT == <<"Sent">>

Listings ==
    { << [Name |-> SENT, NoSelect |-> FALSE], [Name |-> <<"[Gmail]">>, NoSelect |-> TRUE],
         [Name |-> INBOX, NoSelect |-> FALSE] >> }

SeqsUpTo(S, n) == UNION { [1..k -> S] : k \in 0..n }

\* messages made of the templates ts; the third template arrives already flagged \Deleted
Msgs(ts) == [i \in 1..Len(ts) |-> [uid |-> i, tpl |-> ts[i], del |-> ts[i] = 3]]

SmallMailboxes ==
    { (INBOX :> Msgs(a)) @@ (SENT :> Msgs(b)) :
        a \in SeqsUpTo(1..Len(Pool), MaxMsgs), b \in { <<>>, <<2>> } }

IdleConn ==
    /\ addr = NoAddr
    /\ attempts = <<>>
    /\ advisory = <<>>
    /\ cli = "nil"

\* a session negotiated on the modern tier, logged in
Connected ==
    /\ addr = << <<"h">>, "993" >>
    /\ attempts = << [tier |-> "modern", ok |-> TRUE] >>
    /\ advisory = << "Modern TLS" >>
    /\ cli = "modern"

IdleSvc ==
    /\ selected = NoFolder
    /\ calls = <<>>
    /\ removed = {}
    /\ faults = 0
    /\ errs = {}

IdleScan ==
    /\ folders = <<>>
    /\ fi = 0
    /\ buckets = <<>>
    /\ target = NewBucket(NoStr)
    /\ totMsgs = 0
    /\ matchMsgs = 0
    /\ fetched = <<>>
    /\ listed = <<>>

IdlePager ==
    /\ list = <<>>
    /\ page = 0
    /\ start = 0
    /\ end = 0
    /\ in = NoStr
    /\ idx = 0
    /\ confirm = NoStr
    /\ ans = NoStr
    /\ notice = ""
    /\ shown = <<>>
    /\ wleft = {}
    /\ ndel = 0
    /\ eof = FALSE

IdleArch ==
    /\ lrest = <<>>
    /\ lopen = FALSE
    /\ mbc = <<>>
    /\ archive = <<>>
    /\ rest = <<>>
    /\ tbox = <<>>
    /\ progress = [folders |-> 0, msgs |-> 0, restored |-> 0]

ConnectCfgs ==
    [ email : Emails, password : BOOLEAN, imap : Addrs \cup {NoAddr},
      field : {"from"}, match : {NoStr, <<"s","P">>}, size : {FALSE},
      backup : BOOLEAN, restore : BOOLEAN, allowPln : BOOLEAN ]

\* the start of main() under every combination of flags
InitConnect ==
    /\ cfg \in ConnectCfgs
    /\ reach \in IF cfg.imap = NoAddr THEN SUBSET (1..Len(Prefixes)) ELSE {{}}
    /\ listing = <<>>
    /\ mailbox = <<>>
    /\ pc = "start"
    /\ IdleConn
    /\ IdleSvc
    /\ IdleScan
    /\ IdlePager
    /\ IdleArch

NextConnect ==
    \/ Start
    \/ Resolve
    \/ DialModern
    \/ DialLegacy
    \/ DialPlain
    \/ Login
    \/ Dispatch

SpecConnect == InitConnect /\ [][NextConnect]_vars

ScanCfgs ==
    { c \in [ email : {<<"b","@","d">>}, password : {TRUE}, imap : {<< <<"h">>, "993" >>},
              field : Fields, match : {NoStr} \cup MatchTexts, size : BOOLEAN,
              backup : {FALSE}, restore : {FALSE}, allowPln : {FALSE} ] :
        /\ (c.size <=> c.match = NoStr /\ c.field = "subject")
        /\ (c.match = <<"n","o","n","e">> => c.field = "to") }

\* main() after a successful login, in statistics or match mode, on a small mailbox
Init ==
    /\ cfg \in ScanCfgs
    /\ reach = {}
    /\ listing \in Listings
    /\ mailbox \in SmallMailboxes
    /\ pc = "discover"
    /\ Connected
    /\ IdleSvc
    /\ IdleScan
    /\ IdlePager
    /\ IdleArch

Next ==
    \/ Discover
    \/ ScanFolder
    \/ MatchSummary
    \/ MatchAnswer
    \/ MatchWipe
    \/ BuildList
    \/ Listing
    \/ Command
    \/ Confirm
    \/ Deleting

Spec == Init /\ [][Next]_vars

\* the pager mailbox: n senders in one folder; sender 1 wrote two messages, the
\* others one each
RECURSIVE PagerSeq(_, _)
PagerSeq(n, k) == IF k > n THEN <<>> ELSE <<PagerTpl(k)>> \o PagerSeq(n, k + 1)

PagerMailbox(n) == (INBOX :> Msgs(<<PagerTpl(1)>> \o PagerSeq(n, 1)))

PagerKey(k) == classify(Tpl(PagerTpl(k)), "from")

\* what sort.Slice guarantees of its result: the same elements, counts descending
IsSortedDesc(l, S) ==
    /\ Len(l) = Cardinality(S)
    /\ {l[i] : i \in 1..Len(l)} = S
    /\ \A i \in 1..(Len(l) - 1) : l[i].Cnt >= l[i + 1].Cnt

\* two of the orders the sort may leave the senders in: the ties in scan order, and
\* the ties in the opposite order
PagerLists(bs) ==
    LET n == Cardinality(DOMAIN bs)
    IN  { [i \in 1..n |-> bs[PagerKey(i)]],
          [i \in 1..n |-> IF i = 1 THEN bs[PagerKey(1)] ELSE bs[PagerKey(n + 2 - i)]] }

\* numbers of senders: one, a full page, and one and two more than a page
PagerSizes == {1, pageSz, pageSz + 1, pageSz + 2}

PagerCfg ==
    [ email |-> <<"b","@","d">>, password |-> TRUE, imap |-> << <<"h">>, "993" >>,
      field |-> "from", match |-> NoStr, size |-> FALSE,
      backup |-> FALSE, restore |-> FALSE, allowPln |-> FALSE ]

\* main() at the top of the paging loop, after a statistics scan without failures of a
\* mailbox with more senders than one page holds
InitPager ==
    /\ cfg = PagerCfg
    /\ reach = {}
    /\ listing = << [Name |-> INBOX, NoSelect |-> FALSE] >>
    /\ mailbox \in { PagerMailbox(n) : n \in PagerSizes }
    /\ Connected
    /\ selected = INBOX
    /\ calls = << Call("list", NoFolder, <<>>), Call("select", INBOX, <<>>),
                  Call("search", INBOX, <<>>),
                  Call("fetch", INBOX, SearchAll(mailbox[INBOX])) >>
    /\ removed = {}
    /\ faults = 0
    /\ errs = {}
    /\ folders = <<INBOX>>
    /\ fi = 2
    /\ buckets = ConsumeStats(Fetch(mailbox[INBOX], SearchAll(mailbox[INBOX]), FALSE),
                              INBOX, "from", <<>>)
    /\ target = NewBucket(NoStr)
    /\ totMsgs = Len(mailbox[INBOX])
    /\ matchMsgs = 0
    /\ fetched = [i \in 1..Len(mailbox[INBOX]) |->
                    [folder |-> INBOX, src |-> INBOX, tpl |-> mailbox[INBOX][i].tpl]]
    /\ listed = << [Name |-> INBOX, NoSelect |-> FALSE] >>
    /\ list \in PagerLists(buckets)
    /\ IsSortedDesc(list, {buckets[k] : k \in DOMAIN buckets})
    /\ page = 0
    /\ start = 0
    /\ end = 0
    /\ in = NoStr
    /\ idx = 0
    /\ confirm = NoStr
    /\ ans = NoStr
    /\ notice = ""
    /\ shown = <<>>
    /\ wleft = {}
    /\ ndel = 0
    /\ eof = FALSE
    /\ IdleArch
    /\ pc = "Listing"

NextPager ==
    \/ Listing
    \/ Command
    \/ Confirm
    \/ Deleting

SpecPager == InitPager /\ [][NextPager]_vars

\* the pager as the sequential program runs it: a step that can be taken is taken
SpecPagerLive == InitPager /\ [][NextPager]_vars /\ WF_vars(NextPager)

WORK == <<"Work", "2024">>

ArchiveListing ==
    << [Name |-> INBOX, NoSelect |-> FALSE], [Name |-> <<"[Gmail]">>, NoSelect |-> TRUE],
       [Name |-> SENT, NoSelect |-> FALSE], [Name |-> WORK, NoSelect |-> FALSE] >>

ArchiveMailboxes ==
    { (INBOX :> Msgs(a)) @@ (SENT :> Msgs(b)) @@ (WORK :> Msgs(c)) :
        a \in SeqsUpTo(1..2, MaxMsgs), b \in { <<>>, <<2>> }, c \in { <<>>, <<1, 1>> } }

\* main() after a successful login with -backup, on a small source mailbox
InitArchive ==
    /\ cfg = [ email |-> <<"b","@","d">>, password |-> TRUE, imap |-> << <<"h">>, "993" >>,
               field |-> "from", match |-> NoStr, size |-> FALSE,
               backup |-> TRUE, restore |-> FALSE, allowPln |-> FALSE ]
    /\ reach = {}
    /\ listing = ArchiveListing
    /\ mailbox \in ArchiveMailboxes
    /\ pc = "backup"
    /\ Connected
    /\ IdleSvc
    /\ IdleScan
    /\ IdlePager
    /\ lrest = ArchiveListing
    /\ lopen = TRUE
    /\ mbc = <<>>
    /\ archive = <<>>
    /\ rest = <<>>
    /\ tbox = <<>>
    /\ progress = [folders |-> 0, msgs |-> 0, restored |-> 0]

NextArchive ==
    \/ BackupList
    \/ BackupFolder
    \/ BackupDone
    \/ RestoreStart
    \/ RestoreEntry
    \/ RestoreDone

SpecArchive == InitArchive /\ [][NextArchive]_vars

GMAIL == <<"[Gmail]">>

\* what a List call may deliver about INBOX, Sent and [Gmail]; INBOX is never \Noselect
MailboxInfos ==
    { [Name |-> INBOX, NoSelect |-> FALSE] }
        \cup [Name : {SENT, GMAIL}, NoSelect : BOOLEAN]

\* every listing of up to three mailboxes that names no mailbox twice, the empty one
\* and those without INBOX included
DiscoverListings ==
    { l \in SeqsUpTo(MailboxInfos, 3) :
        \A i, j \in 1..Len(l) : l[i].Name = l[j].Name => i = j }

\* main() after a successful login in statistics mode, under every such listing
InitDiscover ==
    /\ cfg = PagerCfg
    /\ reach = {}
    /\ listing \in DiscoverListings
    /\ mailbox = (INBOX :> Msgs(<<1>>)) @@ (SENT :> Msgs(<<2>>)) @@ (GMAIL :> <<>>)
    /\ pc = "discover"
    /\ Connected
    /\ IdleSvc
    /\ IdleScan
    /\ IdlePager
    /\ IdleArch

NextDiscover ==
    \/ Discover
    \/ ScanFolder

SpecDiscover == InitDiscover /\ [][NextDiscover]_vars

\* tar entries as other tools write them too: a message at the archive root, with and
\* without a leading "./", a directory entry, and messages one and two levels down
TarEntries ==
    { [Name |-> <<"7.eml">>,                 IsDir |-> FALSE, Data |-> "raw1"],
      [Name |-> <<".", "8.eml">>,            IsDir |-> FALSE, Data |-> "raw2"],
      [Name |-> <<"Sent">>,                  IsDir |-> TRUE,  Data |-> ""],
      [Name |-> <<"Sent", "1.eml">>,         IsDir |-> FALSE, Data |-> "raw2"],
      [Name |-> <<"Work", "2024", "1.eml">>, IsDir |-> FALSE, Data |-> "raw1"] }

\* the longest archive restored
MaxEntries == 3

\* the target account before the restore: INBOX alone, or Sent there already with a message
TargetBoxes == { (INBOX :> <<>>), (INBOX :> <<>>) @@ (SENT :> <<"raw3">>) }

\* main() after a successful login with -restore, on every archive of up to MaxEntries
\* entries
InitRestore ==
    /\ cfg = [ email |-> <<"b","@","d">>, password |-> TRUE, imap |-> << <<"h">>, "993" >>,
               field |-> "from", match |-> NoStr, size |-> FALSE,
               backup |-> FALSE, restore |-> TRUE, allowPln |-> FALSE ]
    /\ reach = {}
    /\ listing = <<>>
    /\ mailbox = <<>>
    /\ pc = "restore"
    /\ Connected
    /\ IdleSvc
    /\ IdleScan
    /\ IdlePager
    /\ lrest = <<>>
    /\ lopen = FALSE
    /\ mbc = <<>>
    /\ archive \in SeqsUpTo(TarEntries, MaxEntries)
    /\ rest = archive
    /\ tbox \in TargetBoxes
    /\ progress = [folders |-> 0, msgs |-> 0, restored |-> 0]

NextRestore ==
    \/ RestoreEntry
    \/ RestoreDone

SpecRestore == InitRestore /\ [][NextRestore]_vars

\* the archive file named by -restore
ModesArchive ==
    << [Name |-> <<"INBOX", "1.eml">>, IsDir |-> FALSE, Data |-> "raw1"],
       [Name |-> <<"Sent", "1.eml">>,  IsDir |-> FALSE, Data |-> "raw2"] >>

\* every combination of -backup, -restore and -match, with credentials and -imap given
ModeCfgs ==
    [ email : {<<"b","@","d">>}, password : {TRUE}, imap : {<< <<"h">>, "993" >>},
      field : {"from"}, match : {NoStr, <<"s","P">>}, size : {FALSE},
      backup : BOOLEAN, restore : BOOLEAN, allowPln : {FALSE} ]

\* the start of main() under every combination of mode selectors, on one small account
InitModes ==
    /\ cfg \in ModeCfgs
    /\ reach = {}
    /\ listing \in Listings
    /\ mailbox = (INBOX :> Msgs(<<1, 2>>)) @@ (SENT :> Msgs(<<2>>))
    /\ pc = "start"
    /\ IdleConn
    /\ IdleSvc
    /\ IdleScan
    /\ IdlePager
    /\ lrest = listing
    /\ lopen = TRUE
    /\ mbc = <<>>
    /\ archive = <<>>
    /\ rest = ModesArchive
    /\ tbox = (INBOX :> <<>>)
    /\ progress = [folders |-> 0, msgs |-> 0, restored |-> 0]

\* one run of main() from the flag checks to its end
NextModes ==
    \/ Start
    \/ Resolve
    \/ DialModern
    \/ DialLegacy
    \/ DialPlain
    \/ Login
    \/ Dispatch
    \/ BackupList
    \/ BackupFolder
    \/ BackupDone
    \/ RestoreEntry
    \/ RestoreDone
    \/ Discover
    \/ ScanFolder
    \/ MatchSummary
    \/ MatchAnswer
    \/ MatchWipe
    \/ BuildList
    \/ Listing
    \/ Command
    \/ Confirm
    \/ Deleting

SpecModes == InitModes /\ [][NextModes]_vars

-----------------------------------------------------------------------------
(* transport negotiation *)

TierRank(t) == CASE t = "modern" -> 1 [] t = "legacy" -> 2 [] t = "plain" -> 3

DialPcs == {"start", "resolve", "dial_modern", "dial_legacy", "dial_plain"}

Succeeded == Len(attempts) > 0 /\ attempts[Len(attempts)].ok

\* C10: dialSmart tries the tiers in the order modern, legacy, plaintext and stops at
\* the first success; plaintext is tried only when the port is 143 and -allow-plain was
\* given; when every permitted tier has failed there is an error and no session
C10_TransportTiers ==
    /\ \A i \in 1..Len(attempts) : TierRank(attempts[i].tier) = i
    /\ \A i \in 1..(Len(attempts) - 1) : ~attempts[i].ok
    /\ \A i \in 1..Len(attempts) :
          attempts[i].tier = "plain" => addr[2] = "143" /\ cfg.allowPln
    /\ (cli # "nil") <=> Succeeded
    /\ Succeeded => cli = attempts[Len(attempts)].tier
    /\ (pc \notin DialPcs /\ addr # NoAddr /\ ~Succeeded) => pc = "fatal" /\ cli = "nil"
    /\ (pc \notin DialPcs /\ addr # NoAddr /\ ~Succeeded /\ addr[2] = "143" /\ cfg.allowPln)
          => Len(attempts) = 3

\* all three tiers were tried in order and the plaintext one connected
C10_Witness ==
    /\ pc = "login"
    /\ attempts = <<[tier |-> "modern", ok |-> FALSE], [tier |-> "legacy", ok |-> FALSE],
                    [tier |-> "plain", ok |-> TRUE]>>
    /\ cli = "plain"

-----------------------------------------------------------------------------
(* deletion safety *)

DeletionCalls(c) == {i \in 1..Len(c) : c[i].op \in {"store", "expunge"}}

Affirmative(x) == x \in {<<"y">>, <<"Y">>}

\* C1: a STORE +\Deleted or EXPUNGE call is issued only while the answer read at the
\* immediately preceding confirmation prompt is "y" in either case: the single prompt of
\* match mode, or the "Delete ALL" prompt of the pager, read after the index that chose
\* the group; no other step adds such a call
C1_NoDeletionWithoutConfirmation ==
    [][DeletionCalls(calls') # DeletionCalls(calls) =>
          IF statsMode
          THEN pc = "Deleting" /\ Affirmative(confirm) /\ ~Atoi(in).err
          ELSE pc = "MatchWipe" /\ Affirmative(ans)]_vars

\* an upper-case "Y" at the pager's prompt led to a STORE call
C1_Witness ==
    /\ pc = "Deleting"
    /\ confirm = <<"Y">>
    /\ \E i \in 1..Len(calls) : calls[i].op = "store"

-----------------------------------------------------------------------------
(* match-mode deletion *)

TargetMessages ==
    UNION {{<<f, target.ByFolder[f][j]>> : j \in 1..Len(target.ByFolder[f])} :
              f \in DOMAIN target.ByFolder}

\* C2: after the match-mode prompt was affirmed, in a run without any service failure,
\* the messages removed from the server are exactly the messages counted in the target
\* group, and the reported total equals the group's count
C2_MatchDeletionExact ==
    (~statsMode /\ pc = "done" /\ notice = "deleted" /\ faults = 0) =>
        /\ removed = TargetMessages
        /\ Cardinality(removed) = target.Cnt
        /\ shown.total = target.Cnt

-----------------------------------------------------------------------------
(* statistics scan *)

RECURSIVE SumCnt(_)
SumCnt(l) == IF l = <<>> THEN 0 ELSE l[1].Cnt + SumCnt(Tail(l))

RECURSIVE SumOver(_, _)
SumOver(bs, K) ==
    IF K = {} THEN 0
    ELSE LET k == CHOOSE x \in K : TRUE IN bs[k].Cnt + SumOver(bs, K \ {k})

ObservedKeys == {classify(Tpl(fetched[i].tpl), cfg.field) : i \in 1..Len(fetched)}

\* C7: when a statistics scan has completed, the counts of the groups add up to the
\* number of messages fetched across all folders, and there is exactly one group per
\* distinct classification key: in the key->group map and in the sorted list
C7_CountsAddUp ==
    /\ (statsMode /\ pc = "scanned") =>
          /\ SumOver(buckets, DOMAIN buckets) = totMsgs
          /\ totMsgs = Len(fetched)
          /\ DOMAIN buckets = ObservedKeys
          /\ \A k \in DOMAIN buckets : buckets[k].Key = k /\ buckets[k].Cnt >= 1
    /\ (statsMode /\ pc = "Listing" /\ ndel = 0) =>
          /\ SumCnt(list) = totMsgs
          /\ Len(list) = Cardinality(ObservedKeys)
    /\ \A i, j \in 1..Len(list) : list[i].Key = list[j].Key => i = j

\* a completed scan that fetched from two folders and grouped several senders
C7_Witness ==
    /\ statsMode
    /\ pc = "scanned"
    /\ totMsgs >= 3
    /\ Cardinality(DOMAIN buckets) >= 2
    /\ Cardinality({fetched[i].folder : i \in 1..Len(fetched)}) = 2

-----------------------------------------------------------------------------
(* match scan *)

\* case-insensitive containment, character by character
CIContains(v, text) ==
    \E off \in 0..(Len(v) - Len(text)) :
        \A j \in 1..Len(text) : LowerChar(v[off + j]) = LowerChar(text[j])

EnumeratedMatching ==
    {<<f, i>> \in UNION {{<<g, k>> : k \in 1..Len(mailbox[g])} :
                            g \in {folders[n] : n \in 1..Len(folders)} \cap DOMAIN mailbox} :
        CIContains(classify(Tpl(mailbox[f][i].tpl), cfg.field), cfg.match)}

FetchedMatching ==
    {i \in 1..Len(fetched) : CIContains(classify(Tpl(fetched[i].tpl), cfg.field), cfg.match)}

\* C8 as stated: after a match scan without any service failure, the target group
\* counts every message of the enumerated folders whose classification value contains
\* the match text case-insensitively
C8_CountsAllMatching ==
    (~statsMode /\ pc = "scanned" /\ faults = 0) =>
        target.Cnt = Cardinality(EnumeratedMatching)

\* C8: after a match scan, the target group counts exactly those messages, among the
\* ones fetched from the server's candidate sets, whose classification value contains the
\* match text case-insensitively
C8_CountsFetchedMatching ==
    (~statsMode /\ pc \in {"scanned", "MatchPrompt", "MatchWipe", "done"}) =>
        /\ target.Cnt = Cardinality(FetchedMatching)
        /\ target.Cnt = matchMsgs

\* a mixed-case match text: the local check kept one fetched candidate and dropped another
C8_Witness ==
    /\ ~statsMode
    /\ pc = "scanned"
    /\ cfg.match = <<"s", "P">>
    /\ target.Cnt >= 1
    /\ target.Cnt < Len(fetched)

-----------------------------------------------------------------------------
(* pager *)

CeilDiv(n, p) == (n + p - 1) \div p

LastPageShown == pc = "AwaitingCommand" /\ (page + 1) * pageSz >= Len(list)

IsNext(t) == t \in {<<"n">>, <<"N">>}

AllDigits(t) == t # NoStr /\ \A i \in 1..Len(t) : t[i] \in DigitChars

InvalidCommand(t) ==
    /\ ToLower(t) \notin {<<"n">>, <<"p">>, <<"q">>}
    /\ ~AllDigits(t) \/ Magnitude(t) < 1 \/ Magnitude(t) > Len(shown)

\* C5: a command that is neither n, p, q nor a number between 1 and the number of
\* rows shown on the current page changes neither the page index nor the group list,
\* issues no service call and prints "bad input"; the next step displays the same page
C5_InvalidCommandFrame ==
    [][/\ (pc = "AwaitingCommand" /\ InvalidCommand(in')) =>
             (notice' = "bad input" /\ pc' = "Listing" /\ page' = page /\ list' = list
                /\ calls' = calls /\ mailbox' = mailbox /\ shown' = shown)
       /\ (pc = "AwaitingCommand" /\ notice' = "bad input") => InvalidCommand(in')
       /\ (pc = "Listing" /\ notice = "bad input") =>
             (pc' = "AwaitingCommand" /\ shown' = shown /\ page' = page /\ list' = list
                /\ calls' = calls /\ mailbox' = mailbox)]_vars

\* "2" was rejected on a last page that shows one row of a list of more than two groups
C5_Witness ==
    /\ pc = "Listing"
    /\ notice = "bad input"
    /\ in = <<"2">>
    /\ page = 1
    /\ Len(shown) = 1
    /\ Len(list) = pageSz + 1

\* C6: the step that completes the deletion of the group chosen by its index on the
\* current page removes that one element from the list: the groups before it keep their
\* places, the groups after it move up by one, each unchanged; no other step changes
\* the list
C6_DeleteRemovesExactlyG ==
    [][/\ (pc = "Deleting" /\ pc' = "Listing") =>
             LET k == page * pageSz + idx
             IN  /\ idx \in 1..Len(shown)
                 /\ k \in 1..Len(list)
                 /\ shown[idx].key = trim(list[k].Key)
                 /\ shown[idx].msgs = list[k].Cnt
                 /\ Len(list') = Len(list) - 1
                 /\ \A i \in 1..(k - 1) : list'[i] = list[i]
                 /\ \A i \in k..Len(list') : list'[i] = list[i + 1]
       /\ list' # list => (pc = "Deleting" /\ pc' = "Listing")]_vars

\* the second group of the first page was deleted from a list of more than one page
C6_Witness ==
    /\ pc = "Listing"
    /\ notice = "deleted"
    /\ idx = 2
    /\ page = 0
    /\ Len(list) = pageSz

-----------------------------------------------------------------------------
(* archive round trip *)

Raws == {Tpl(t).Raw : t \in 1..Len(Pool)}

Occurrences(r, q) == Cardinality({i \in 1..Len(q) : q[i] = r})

SourceRaw(f) == [i \in 1..Len(mailbox[f]) |-> Tpl(mailbox[f][i].tpl).Raw]

TargetRaw(f) == IF f \in DOMAIN tbox THEN tbox[f] ELSE <<>>

\* C9: when the backup and then the restore into an empty mailbox have both ended and
\* reported success, every folder of the source holds in the target the same number of
\* messages, with the same raw contents
C9_ArchiveRoundTrip ==
    pc = "restore_done" =>
        \A f \in DOMAIN mailbox :
            /\ Len(TargetRaw(f)) = Len(mailbox[f])
            /\ \A r \in Raws : Occurrences(r, TargetRaw(f)) = Occurrences(r, SourceRaw(f))

\* without any service failure the round trip is exact
C9_RoundTripWithoutFailure ==
    (pc = "restore_done" /\ faults = 0) =>
        \A f \in DOMAIN mailbox : TargetRaw(f) = SourceRaw(f)

-----------------------------------------------------------------------------
(* ranking *)

KeyOf(i) == classify(Tpl(fetched[i].tpl), cfg.field)

FirstSeen(k) ==
    CHOOSE i \in 1..Len(fetched) : KeyOf(i) = k /\ \A j \in 1..(i - 1) : KeyOf(j) # k

\* C11: the list built after a statistics scan without any service failure is sorted
\* descending by count, and groups of equal count stand in the order in which their
\* keys were first observed during the scan
C11_SortedTiesByInsertion ==
    (statsMode /\ pc = "Listing" /\ ndel = 0 /\ faults = 0) =>
        \A i, j \in 1..Len(list) :
            i < j => \/ list[i].Cnt > list[j].Cnt
                     \/ /\ list[i].Cnt = list[j].Cnt
                        /\ FirstSeen(list[i].Key) < FirstSeen(list[j].Key)

-----------------------------------------------------------------------------
(* successive deletions *)

DeletedGroups == {buckets[k] : k \in DOMAIN buckets} \ {list[i] : i \in 1..Len(list)}

GroupMessages(b) ==
    UNION {{<<f, b.ByFolder[f][j]>> : j \in 1..Len(b.ByFolder[f])} : f \in DOMAIN b.ByFolder}

NoneFlaggedAtStart == \A i \in 1..Len(fetched) : fetched[i].tpl # 3

\* C12: in statistics mode, in a run without any service failure on a mailbox in which
\* no message carried \Deleted at the start, after any sequence of confirmed group
\* deletions the messages removed from the server are exactly the messages classified
\* into the deleted groups at scan time
C12_SuccessiveDeletionsExact ==
    (statsMode /\ pc \in {"Listing", "AwaitingCommand"} /\ faults = 0 /\ NoneFlaggedAtStart) =>
        removed = UNION {GroupMessages(b) : b \in DeletedGroups}

-----------------------------------------------------------------------------
(* one caller at a time *)

\* C13: the main path issues no select, search or fetch on the session while the
\* listing producer started earlier has not finished
C13_OneCallInFlight ==
    [][\A i \in (Len(calls) + 1)..Len(calls') : calls'[i].op # "list" => ~lopen]_vars

-----------------------------------------------------------------------------
(* deletion dispatch *)

\* C14: every mark-deleted call directly follows the select of its pair and is directly
\* followed by the expunge, and both act on the folder that select named, also when
\* the select failed
C14_DispatchOnSelectedPair ==
    \A i \in 1..Len(calls) :
        calls[i].op = "store" =>
            /\ i > 1 /\ i < Len(calls)
            /\ calls[i - 1].op = "select"
            /\ calls[i + 1].op = "expunge"
            /\ calls[i].folder = calls[i - 1].folder
            /\ calls[i + 1].folder = calls[i - 1].folder

-----------------------------------------------------------------------------
(* scan failures *)

ScanErrFolders == {e[2] : e \in {x \in errs : x[1] \in {"select", "search", "fetch"}}}

\* C15: during and after the scan, a folder whose select, search or fetch failed has
\* contributed no message, every message counted for a folder was fetched from that
\* folder, and the scan ends only after every enumerated folder was visited
C15_ScanFailuresAbsorbed ==
    pc \in {"scan", "scanned"} =>
        /\ \A i \in 1..Len(fetched) : fetched[i].folder \notin ScanErrFolders
        /\ \A i \in 1..Len(fetched) : fetched[i].src = fetched[i].folder
        /\ pc = "scanned" => fi = Len(folders) + 1

-----------------------------------------------------------------------------
(* folder enumeration *)

\* C16: when the folder-listing call returned an error the run does not go on to the
\* scan
C16_ListErrorStopsRun ==
    <<"list", NoFolder>> \in errs => pc \notin {"scan", "scanned"}

Occurs(f) == Cardinality({i \in 1..Len(folders) : folders[i] = f})

\* C17: once the folders are enumerated, INBOX is in the list exactly once, whether or
\* not the listing delivered it; every other mailbox the listing delivered is in it
\* exactly once unless marked \Noselect, and then it is not in it; nothing else is in it;
\* a listing call that returned no error delivered the whole listing
C17_FoldersEnumerated ==
    pc \in {"scan", "scanned"} =>
        /\ Occurs(INBOX) = 1
        /\ \A i \in 1..Len(listed) :
              Occurs(listed[i].Name) = IF listed[i].NoSelect THEN 0 ELSE 1
        /\ \A k \in 1..Len(folders) :
              folders[k] = INBOX \/ \E i \in 1..Len(listed) : listed[i].Name = folders[k]
        /\ <<"list", NoFolder>> \notin errs => listed = listing

\* a listing that begins with INBOX and a \Noselect mailbox was enumerated
C17_Witness ==
    /\ pc = "scan"
    /\ errs = {}
    /\ Len(listed) = 3
    /\ listed[1].Name = INBOX
    /\ listed[2].NoSelect
    /\ Len(folders) = 2

-----------------------------------------------------------------------------
(* the page after a deletion *)

\* C18: the step that ends a confirmed deletion returns to Listing with one group less
\* and with the page index one lower if and only if the first row of the page lies past
\* the end of the shrunk list and the page is not the first one, and unchanged otherwise;
\* a Listing step on an empty list prints End and ends the run
C18_PageAfterDeletion ==
    [][ /\ (pc = "Deleting" /\ wleft = {}) =>
              /\ pc' = "Listing"
              /\ Len(list') = Len(list) - 1
              /\ page' = IF page * pageSz >= Len(list') /\ page > 0 THEN page - 1 ELSE page
        /\ (pc = "Listing" /\ list = <<>>) =>
              /\ notice' = "End"
              /\ pc' = "done" ]_vars

\* the only group of the second page was deleted and the first page is up next
C18_Witness ==
    /\ pc = "Listing"
    /\ notice = "deleted"
    /\ start = pageSz
    /\ page = 0
    /\ Len(list) = pageSz

-----------------------------------------------------------------------------
(* declining a confirmation *)

\* the state after a chosen group was not confirmed: an index is chosen and nothing
\* was printed since the prompt
Declined == pc = "Listing" /\ idx >= 1 /\ notice = ""

\* C19: an answer to "Delete ALL" other than y or Y leads back to the top of the loop
\* with the page index, the group list with every group's contents, the mailboxes and
\* the service calls unchanged, and the step after it displays the same rows again and
\* waits for a command
C19_DeclineFrame ==
    [][ /\ (pc = "AwaitingConfirmation" /\ ~Affirmative(confirm')) =>
              /\ Declined'
              /\ page' = page
              /\ list' = list
              /\ shown' = shown
              /\ mailbox' = mailbox
              /\ calls' = calls
              /\ removed' = removed
        /\ Declined =>
              /\ pc' = "AwaitingCommand"
              /\ page' = page
              /\ list' = list
              /\ shown' = shown ]_vars

\* the only group of the second page was chosen and the answer was n
C19_Witness ==
    /\ Declined
    /\ confirm = <<"n">>
    /\ idx = 1
    /\ page = 1
    /\ Len(list) = pageSz + 1
    /\ removed = {}

-----------------------------------------------------------------------------
(* server resolution *)

\* C20: a server guessed from the e-mail address is the first candidate in prefix
\* order that answered on port 993; when no candidate answered, the resolution either
\* fails, and nothing is dialled, or returns a host on port 993: a candidate that did
\* not answer is never returned
C20_ResolveReachableOrFail ==
    (cfg.imap = NoAddr /\ SplitCount(cfg.email) > 1) =>
        /\ (reach # {} /\ addr # NoAddr) =>
              \E i \in reach :
                 /\ \A j \in reach : i <= j
                 /\ addr = << Prefixes[i] \o SplitSecond(cfg.email), "993" >>
        /\ reach = {} =>
              \/ addr = NoAddr /\ attempts = <<>>
              \/ addr[2] = "993"

-----------------------------------------------------------------------------
(* negotiation advisory *)

AdvisoryOf(t) ==
    CASE t = "modern" -> "Modern TLS" [] t = "legacy" -> "Legacy TLS" [] t = "plain" -> "Plain IMAP"

\* C21: once a tier has connected, exactly one advisory line was printed and it names
\* the tier of the session; no advisory names a tier whose attempt failed; as long as no
\* tier has connected, and when the negotiation has failed, no advisory was printed
C21_AdvisoryNamesTier ==
    /\ Succeeded => advisory = << AdvisoryOf(cli) >>
    /\ \A i \in 1..Len(attempts) :
          ~attempts[i].ok =>
              \A k \in 1..Len(advisory) : advisory[k] # AdvisoryOf(attempts[i].tier)
    /\ ~Succeeded => advisory = <<>>

-----------------------------------------------------------------------------
(* restore *)

\* the directory component of an entry path, INBOX for an entry at the archive root
Destination(name) ==
    LET d == [i \in 1..(Len(name) - 1) |-> name[i]]
    IN  IF d = <<>> \/ d = <<".">> THEN INBOX ELSE d

Holds(box, f) == IF f \in DOMAIN box THEN box[f] ELSE <<>>

\* C22: every step of the restore takes the first entry not yet processed; a directory
\* entry issues no call and changes nothing; any other entry issues a create and then an
\* append, both for the directory component of its path, or for INBOX when it sits at
\* the archive root; no folder of the target is lost, no folder but the destination
\* changes, a destination that existed keeps its messages, and unless the service fails
\* a call the destination holds afterwards exactly one more message, the entry's content
C22_RestoreEntryByEntry ==
    [][ (pc = "restore" /\ rest # <<>>) =>
          LET h == Head(rest)
              fold == Destination(h.Name)
          IN  /\ rest' = Tail(rest)
              /\ IF h.IsDir
                 THEN calls' = calls /\ tbox' = tbox
                 ELSE /\ calls' = calls \o << Call("create", fold, <<>>),
                                               Call("append", fold, <<>>) >>
                      /\ \A f \in DOMAIN tbox :
                            /\ f \in DOMAIN tbox'
                            /\ f # fold => tbox'[f] = tbox[f]
                      /\ DOMAIN tbox' \subseteq DOMAIN tbox \cup {fold}
                      /\ Holds(tbox', fold) \in { Holds(tbox, fold),
                                                  Append(Holds(tbox, fold), h.Data) }
                      /\ faults' = faults =>
                            /\ fold \in DOMAIN tbox'
                            /\ tbox'[fold] = Append(Holds(tbox, fold), h.Data) ]_vars

\* a root entry, a directory entry and an entry for the existing folder Sent were
\* restored in this order without a service failure
C22_Witness ==
    /\ pc = "restore_done"
    /\ faults = 0
    /\ Len(archive) = 3
    /\ archive[1].Name = <<".", "8.eml">>
    /\ archive[2].IsDir
    /\ archive[3].Name = <<"Sent", "1.eml">>
    /\ tbox = (INBOX :> <<"raw2">>) @@ (SENT :> <<"raw3", "raw2">>)

-----------------------------------------------------------------------------
(* top-level modes *)

BackupPcs == {"backup", "backup_done"}

RestorePcs == {"restore", "restore_done"}

ScanPcs == {"discover", "scan", "scanned", "done"}

MatchPcs == {"MatchPrompt", "MatchWipe"}

PagerPcs == {"Listing", "AwaitingCommand", "AwaitingConfirmation", "Deleting"}

\* the mode a position of main() belongs to; the scan is shared by the two delete modes
ModeOf(p) ==
    CASE p \in BackupPcs  -> "backup"
      [] p \in RestorePcs -> "restore"
      [] p \in ScanPcs \cup MatchPcs \cup PagerPcs -> "delete"
      [] OTHER -> "none"

\* the run was stopped by the flag checks: nothing was resolved or dialled
Rejected == pc = "fatal" /\ addr = NoAddr /\ attempts = <<>>

\* no trace of a scan for deletion and no mark-deleted or expunge call
NothingScanned ==
    /\ folders = <<>>
    /\ fetched = <<>>
    /\ DOMAIN buckets = {}
    /\ target.Cnt = 0
    /\ list = <<>>
    /\ DeletionCalls(calls) = {}
    /\ removed = {}

\* C23 as stated: under every combination of -backup, -restore and -match a mode
\* executes, so no run with credentials is stopped by the flag checks, and a run that is
\* in backup or restore has scanned nothing for deletion and issued no mark-deleted or
\* expunge
C23_ExactlyOneMode ==
    /\ ~Rejected
    /\ ModeOf(pc) \in {"backup", "restore"} => NothingScanned

\* C23, amended: the flag checks stop the run exactly when -match is combined with
\* -backup or -restore, and then no mode executes; otherwise the mode entered is backup
\* if -backup is given, else restore if -restore is given, else the scan, and it is
\* entered at the dispatch only; a run never leaves its mode for another; after the
\* scan the single-match steps are taken only with -match and the pager steps only
\* without it; a run in backup or restore has scanned nothing for deletion and issued
\* no mark-deleted or expunge
C23_AtMostOneMode ==
    /\ [](Rejected => (cfg.backup \/ cfg.restore) /\ cfg.match # NoStr)
    /\ []((cfg.backup \/ cfg.restore) /\ cfg.match # NoStr => pc \in {"start", "fatal"} /\ attempts = <<>>)
    /\ [][ModeOf(pc) = "none" /\ ModeOf(pc') # "none" =>
              /\ pc = "dispatch"
              /\ ModeOf(pc') = IF cfg.backup THEN "backup"
                               ELSE IF cfg.restore THEN "restore" ELSE "delete"]_vars
    /\ [][ModeOf(pc) # "none" => ModeOf(pc') = ModeOf(pc)]_vars
    /\ [](pc \in MatchPcs => cfg.match # NoStr)
    /\ [](pc \in PagerPcs => cfg.match = NoStr)
    /\ [](ModeOf(pc) \in {"backup", "restore"} => NothingScanned)

\* -backup and -restore were both given and the backup has ended
C23_Witness ==
    /\ cfg.backup
    /\ cfg.restore
    /\ pc = "backup_done"
    /\ Len(archive) = 3
    /\ rest = ModesArchive

-----------------------------------------------------------------------------
(* group consistency *)

\* the size passed to add for the i-th message delivered
SizeSeen(i) == IF cfg.match # NoStr \/ cfg.size THEN Tpl(fetched[i].tpl).Size ELSE 0

RECURSIVE SumSizes(_)
SumSizes(I) ==
    IF I = {} THEN 0
    ELSE LET i == CHOOSE x \in I : TRUE IN SizeSeen(i) + SumSizes(I \ {i})

RECURSIVE SumLens(_, _)
SumLens(m, F) ==
    IF F = {} THEN 0
    ELSE LET f == CHOOSE x \in F : TRUE IN Len(m[f]) + SumLens(m, F \ {f})

\* the group b is consistent with the delivered messages I that were added to it
Consistent(b, I) ==
    /\ b.Cnt = SumLens(b.ByFolder, DOMAIN b.ByFolder)
    /\ b.Cnt = Cardinality(I)
    /\ b.Bytes = SumSizes(I)
    /\ \A f \in DOMAIN b.ByFolder :
          /\ b.ByFolder[f] # <<>>
          /\ Len(b.ByFolder[f]) = Cardinality({i \in I : fetched[i].folder = f})

\* C24: in every state, each group of the key->group map, each group of the list and
\* the target group has a count equal to the sum of the lengths of its per-folder id
\* lists and to the number of messages added to it, a byte total equal to the sum of
\* the sizes passed to add for them, and no folder with an empty id list
C24_GroupsConsistent ==
    /\ \A k \in DOMAIN buckets :
          Consistent(buckets[k], {i \in 1..Len(fetched) : KeyOf(i) = k})
    /\ \A n \in 1..Len(list) :
          Consistent(list[n], {i \in 1..Len(fetched) : KeyOf(i) = list[n].Key})
    /\ Consistent(target, IF statsMode THEN {} ELSE FetchedMatching)

\* a group with sizes that spans two folders, after a deletion in the pager
C24_Witness ==
    /\ pc = "Listing"
    /\ ndel = 1
    /\ cfg.size
    /\ \E n \in 1..Len(list) :
          /\ Cardinality(DOMAIN list[n].ByFolder) = 2
          /\ list[n].Cnt = 2
          /\ list[n].Bytes = 10

-----------------------------------------------------------------------------
(* termination of the pager *)

\* C25: once the input is exhausted the pager eventually ends; a q read at the command
\* prompt ends it at once with no further service call, and nothing follows the end
C25_TerminatesOnFiniteScript ==
    /\ eof ~> pc = "done"
    /\ [][(pc = "AwaitingCommand" /\ ToLower(in') = <<"q">>) =>
              pc' = "done" /\ calls' = calls]_vars
    /\ [][pc # "done"]_vars

=============================================================================
